---- MODULE Spec2Model ----
(***************************************************************************)
(* The theme preference store of the portfolio site: ThemeProvider         *)
(* (src/unnamed/part_003, lines 201-261) running inside React, with the    *)
(* browser's localStorage and the document root's classList as its         *)
(* environment.                                                            *)
(*                                                                         *)
(* React's part is modelled at the granularity React gives the component:  *)
(*   Mount      the first render: the useState initializer runs            *)
(*   toggleTheme  setTheme enqueues a functional updater                   *)
(*   Render     a render + commit: the queued updaters are applied in      *)
(*              order; the effect is scheduled iff its dependency [theme]  *)
(*              changed                                                    *)
(*   RunEffect  the useEffect body                                         *)
(* React flushes a scheduled passive effect before it renders again, so    *)
(* Render waits for RunEffect.                                             *)
(***************************************************************************)
EXTENDS Integers, Sequences, FiniteSets, TLC

\* ------------------------------------------------------------- bounds
MaxToggles == 4     \* toggleTheme() calls per page load
MaxQueue == 3       \* updaters queued between two renders
MaxToggles2 == 2    \* toggleTheme() calls per page load of the second tab

\* ------------------------------------------------------- value spaces
Themes == {"dark", "light"}

\* What localStorage.getItem returns for an absent key.
null == "<null>"

\* The strings durable storage may hold: the two themes and invalid ones.
StoredStrings == {"dark", "light", "blue", "Dark", ""}

\* The store's key, and another key of the same origin's storage.
ThemeKey == "theme"

OtherKey == "other"

StorageKeys == {ThemeKey, OtherKey}

\* What may be stored under a key.
Storable(k) == IF k = ThemeKey THEN StoredStrings \cup {null} ELSE {"1", null}

Storages == {s \in [StorageKeys -> StoredStrings \cup {"1", null}] :
                \A k \in StorageKeys : s[k] \in Storable(k)}

\* The two presentation markers, and an unrelated class of the root element.
Markers == {"light", "dark"}

Classes == Markers \cup {"app"}

\* The calls the store makes on localStorage.
StorageCalls == {"getItem", "setItem"}

\* The four checks of the quality-check hook script, named as its *_exit variables.
Checks == {"types", "test", "eslint", "prettier"}

\* The order the script runs them in.
CheckOrder == <<"types", "test", "eslint", "prettier">>

\* The script's positions: before each check, at the summary, at the exit, after it.
ScriptSteps == Checks \cup {"summary", "exit", "done"}

\* Exit statuses of a command: 0 on success, anything else on failure.
ExitStatuses == {0, 1, 2}

\* The two summary lines.
AllPassed == "All checks passed!"

SomeFailed == "Some checks failed. Please review the errors above."

VARIABLES
    hasWindow,      \* typeof window !== "undefined"
    storageThrows,  \* the localStorage calls that throw: subset of StorageCalls
                    \* (storage disabled: both; quota exceeded: setItem)
    localStorage,   \* the origin's durable storage: an element of Storages
    classList,      \* document.documentElement.classList, a set of classes
    status,         \* "unmounted" | "mounted" | "crashed"
    theme,          \* the useState value; null before the first render
    queue,          \* number of updaters enqueued by setTheme, not yet rendered
    effectPending,  \* the effect is scheduled and has not run yet
    last,           \* the step taken last
    hook,           \* what useTheme did, when the step taken last was useTheme
    found,          \* the root's classes and the stored item as the step taken last
                    \* found them, when that step was Mount or RunEffect (history)
    prior,          \* what the page load before this one held when it was reloaded (history)
    writer,         \* who wrote the entry under the key last: "store" | "other" (history)
    initial,        \* the value the initializer returned (history)
    toggles,        \* toggleTheme() calls since the mount (history)
    batched,        \* some toggleTheme() was issued while another was uncommitted (history)
    reads,          \* what the initializer read: subset of {"localStorage", "classList"} (history)
    writes,         \* the setItem calls of this page load, in order: <<key, value>> (history)
    tab2,           \* a second page instance of the same origin: its own document
                    \* and ThemeProvider state, the same localStorage
    script          \* the quality-check hook script: its position, HAS_ERRORS, the
                    \* checks it ran with their exit statuses, its own exit status
                    \* (<<>> while it runs, <<status>> once it has exited)

vars == <<hasWindow, storageThrows, localStorage, classList, status, theme, queue,
          effectPending, last, hook, found, prior, writer, initial, toggles, batched,
          reads, writes, tab2, script>>

\* What the ThemeProvider of this page never touches.
outside == <<tab2, script>>

env == <<hasWindow, storageThrows>>

history == <<initial, toggles, batched, reads, writes>>

\* ---------------------------------------------------- pure functions

\* Mutant: the guard forgets the second variant.
isValidThemeDarkOnly(value) == value = "dark"

\* Mutant: the guard accepts every stored string.
isValidThemeLoose(value) == value # null

\* isValidTheme(value): value === "dark" || value === "light"
isValidTheme(value) == value = "dark" \/ value = "light"

\* Mutant: the initializer asks for the absence of "light" instead.
ContainsNoLight(cl) == "light" \notin cl

\* classList.contains("dark")
ContainsDark(cl) == "dark" \in cl

\* Mutant: the initializer looks at the document before the stored preference.
InitialThemeMarkerFirst(stored, cl) ==
    IF "dark" \in cl THEN "dark"
    ELSE IF stored = "dark" \/ stored = "light" THEN stored ELSE "light"

\* The useState initializer's result in a browser.
InitialTheme(stored, cl) ==
    IF isValidTheme(stored) THEN stored
    ELSE IF ContainsDark(cl) THEN "dark" ELSE "light"

\* Mutant: the default without a window is the other variant.
ServerDefaultLight == "light"

\* What the initializer returns without a window.
ServerDefault == "dark"

\* What the initializer reads on its way to its result in a browser.
InitializerReads(stored) ==
    IF isValidTheme(stored) THEN {"localStorage"} ELSE {"localStorage", "classList"}

\* Mutant: the updater sets a fixed value instead of flipping.
UpdaterStuck(prev) == "light"

\* Mutant: the updater cycles through a third variant.
UpdaterThreeWay(prev) ==
    IF prev = "dark" THEN "light" ELSE IF prev = "light" THEN "system" ELSE "dark"

\* The updater toggleTheme passes to setTheme.
Updater(prev) == IF prev = "dark" THEN "light" ELSE "dark"

\* Mutant: toggleTheme computes the new value from the rendered theme
\* (setTheme(theme === "dark" ? "light" : "dark")), so queued calls all start
\* from the same value.
ApplyQueueFromRendered(value, n) ==
    IF n = 0 THEN value ELSE IF value = "dark" THEN "light" ELSE "dark"

\* React applies the n queued updaters in order to the committed state.
RECURSIVE ApplyQueue(_, _)
ApplyQueue(value, n) == IF n = 0 THEN value ELSE ApplyQueue(Updater(value), n - 1)

\* Mutant: the effect has an empty dependency array and runs after the mount only.
DepsEmpty(old, new) == FALSE

\* Mutant: the effect has no dependency array and runs after every render.
DepsIgnored(old, new) == TRUE

\* The effect's dependency array [theme]: the effect runs again iff it changed.
DepsChanged(old, new) == old # new

\* Mutant: the effect removes only one of the two markers.
RemoveLightOnly(cl) == cl \ {"light"}

\* root.classList.remove("light", "dark")
RemoveMarkers(cl) == cl \ {"light", "dark"}

\* Mutant: the effect adds the marker of the other variant.
AddOtherMarker(cl, t) == cl \cup (Markers \ {t})

\* root.classList.add(theme)
AddMarker(cl, t) == cl \cup {t}

\* Mutant: the effect leaves the root's classes alone.
SyncMarkersSkipped(cl, t) == cl

\* The two classList statements of the effect, in order.
SyncMarkers(cl, t) == AddMarker(RemoveMarkers(cl), t)

\* Mutant: the effect writes only when nothing is stored yet.
SetItemIfAbsent(store, t) == [store EXCEPT ![ThemeKey] = IF @ = null THEN t ELSE @]

\* Mutant: the effect only updates a preference that is already stored.
SetItemIfValid(store, t) ==
    IF store[ThemeKey] \in Themes THEN [store EXCEPT ![ThemeKey] = t] ELSE store

\* Mutant: the effect writes under another key.
SetItemOtherKey(store, t) == [store EXCEPT ![OtherKey] = t]

\* localStorage.setItem("theme", theme)
SetItem(store, t) == [store EXCEPT ![ThemeKey] = t]

\* The message of the error useTheme throws.
ProviderError == "useTheme must be used within a ThemeProvider"

\* No useTheme call.
NoCall == [inside |-> FALSE, outcome |-> "none", error |-> null, theme |-> null,
           toggleTheme |-> FALSE]

\* Mutant: outside a provider the hook falls back to a default context.
useThemeDefaulting(context) ==
    [outcome |-> "return", error |-> null,
     theme |-> IF context.defined THEN context.theme ELSE "dark",
     toggleTheme |-> TRUE]

\* useTheme's body, given what useContext(ThemeContext) returned.
useThemeBody(context) ==
    IF ~context.defined
    THEN [outcome |-> "throw", error |-> ProviderError, theme |-> null,
          toggleTheme |-> FALSE]
    ELSE [outcome |-> "return", error |-> null, theme |-> context.theme,
          toggleTheme |-> context.toggleTheme]

\* Mutant: HAS_ERRORS holds the result of the check that ran last.
RecordLast(has, exit) == IF exit # 0 THEN 1 ELSE 0

\* if [ $x_exit -ne 0 ]; then HAS_ERRORS=1 ... else ... fi: the else branch leaves
\* HAS_ERRORS alone.
RecordResult(has, exit) == IF exit # 0 THEN 1 ELSE has

\* Mutant: the script stops at the first check that fails (as under set -e).
AfterCheckErrexit(check, exit) ==
    IF exit # 0 THEN "done"
    ELSE IF check = "types" THEN "test"
    ELSE IF check = "test" THEN "eslint"
    ELSE IF check = "eslint" THEN "prettier"
    ELSE "summary"

\* Where the script goes after a check: the next block of the file, whatever the
\* check returned (there is no set -e and no exit in a check's block).
AfterCheck(check, exit) ==
    IF check = "types" THEN "test"
    ELSE IF check = "test" THEN "eslint"
    ELSE IF check = "eslint" THEN "prettier"
    ELSE "summary"

\* if [ $HAS_ERRORS -eq 0 ]; then echo ... else echo ... fi
SummaryLine(has) == IF has = 0 THEN AllPassed ELSE SomeFailed

\* if [ $HAS_ERRORS -ne 0 ]; then exit 2 else exit 0 fi
ExitStatus(has) == IF has # 0 THEN 2 ELSE 0

\* ------------------------------------------------------------ states

NoFound == [root |-> {}, item |-> null]

Found == [root |-> classList, item |-> localStorage[ThemeKey]]

NoPrior == [held |-> null, synced |-> FALSE]

\* A second tab that has not rendered yet, with the classes of its own document.
NoTab(cl) == [status |-> "unmounted", theme |-> null, queue |-> 0,
              effectPending |-> FALSE, classList |-> cl, initial |-> null,
              toggles |-> 0]

\* The script after HAS_ERRORS=0, before its first check.
ScriptStart == [pc |-> "types", HAS_ERRORS |-> 0, ran |-> <<>>, exits |-> <<>>,
                summary |-> null, status |-> <<>>]

TypeOK ==
    /\ hasWindow \in BOOLEAN
    /\ storageThrows \subseteq StorageCalls
    /\ localStorage \in Storages
    /\ classList \subseteq Classes
    /\ status \in {"unmounted", "mounted", "crashed"}
    /\ theme \in Themes \cup {null}
    /\ queue \in 0..MaxQueue
    /\ effectPending \in BOOLEAN
    /\ last \in {"Init", "Mount", "toggleTheme", "ThemeToggleClick", "Render", "RunEffect",
                 "useTheme", "ExternalStorage", "ExternalMarker", "Reload",
                 "Mount2", "toggleTheme2", "Render2", "RunEffect2", "Reload2"}
    /\ hook \in [inside : BOOLEAN, outcome : {"none", "return", "throw"},
                 error : {null, ProviderError}, theme : Themes \cup {null},
                 toggleTheme : BOOLEAN]
    /\ found \in [root : SUBSET Classes, item : StoredStrings \cup {null}]
    /\ prior \in [held : Themes \cup {null}, synced : BOOLEAN]
    /\ writer \in {"store", "tab2", "other"}
    /\ initial \in Themes \cup {null}
    /\ toggles \in 0..MaxToggles
    /\ batched \in BOOLEAN
    /\ reads \subseteq {"localStorage", "classList"}
    /\ writes \in Seq({ThemeKey} \X Themes)
    /\ tab2 \in [status : {"unmounted", "mounted", "crashed"},
                 theme : Themes \cup {null},
                 queue : 0..MaxQueue,
                 effectPending : BOOLEAN,
                 classList : SUBSET Classes,
                 initial : Themes \cup {null},
                 toggles : 0..MaxToggles2]
    /\ script \in [pc : ScriptSteps,
                   HAS_ERRORS : {0, 1},
                   ran : Seq(Checks),
                   exits : Seq(ExitStatuses),
                   summary : {null, AllPassed, SomeFailed},
                   status : {<<>>} \cup {<<e>> : e \in ExitStatuses}]

\* A page that has not rendered yet, in any environment.
InitPage ==
    /\ hasWindow \in BOOLEAN
    /\ localStorage \in Storages
    /\ classList \in SUBSET Classes
    /\ status = "unmounted"
    /\ theme = null
    /\ queue = 0
    /\ effectPending = FALSE
    /\ last = "Init"
    /\ hook = NoCall
    /\ found = NoFound
    /\ prior = NoPrior
    /\ writer = "other"
    /\ initial = null
    /\ toggles = 0
    /\ batched = FALSE
    /\ reads = {}
    /\ writes = <<>>

\* One page and nothing else: no second tab is open, the script has not started.
InitEnv ==
    /\ InitPage
    /\ tab2 = NoTab({})
    /\ script = ScriptStart

\* Storage works.
Init == InitEnv /\ storageThrows = {}

\* Storage may be unusable.
InitThrows == InitEnv /\ storageThrows \in SUBSET StorageCalls

\* ----------------------------------------------------------- actions

\* The first render of ThemeProvider: the useState initializer.
Mount ==
    /\ status = "unmounted"
    /\ last' = "Mount"
    /\ hook' = NoCall
    /\ found' = Found
    /\ UNCHANGED <<env, outside, localStorage, classList, queue, prior, writer,
                   toggles, batched, writes>>
    /\ IF ~hasWindow
       THEN \* return "dark"; no effect runs in a render without a window
            /\ theme' = ServerDefault
            /\ initial' = ServerDefault
            /\ reads' = {}
            /\ status' = "mounted"
            /\ effectPending' = FALSE
       ELSE IF "getItem" \in storageThrows
       THEN \* getItem throws out of the initializer: the render fails
            /\ reads' = {"localStorage"}
            /\ status' = "crashed"
            /\ UNCHANGED <<theme, initial, effectPending>>
       ELSE /\ theme' = InitialTheme(localStorage[ThemeKey], classList)
            /\ initial' = theme'
            /\ reads' = InitializerReads(localStorage[ThemeKey])
            /\ status' = "mounted"
            /\ effectPending' = TRUE

\* toggleTheme(): setTheme((prev) => ...) enqueues the updater.
toggleTheme ==
    /\ status = "mounted"
    /\ hasWindow
    /\ toggles < MaxToggles
    /\ queue < MaxQueue
    /\ queue' = queue + 1
    /\ toggles' = toggles + 1
    /\ batched' = (batched \/ queue > 0)
    /\ last' = "toggleTheme"
    /\ hook' = NoCall
    /\ found' = NoFound
    /\ UNCHANGED <<env, outside, localStorage, classList, status, theme, effectPending,
                   prior, writer, initial, reads, writes>>

\* Mutant: every render derives the value from storage and the document again.
RenderReadsStorage ==
    /\ status = "mounted"
    /\ hasWindow
    /\ ~effectPending
    /\ theme' = ApplyQueue(InitialTheme(localStorage[ThemeKey], classList), queue)
    /\ queue' = 0
    /\ effectPending' = DepsChanged(theme, theme')
    /\ last' = "Render"
    /\ hook' = NoCall
    /\ found' = NoFound
    /\ UNCHANGED <<env, outside, localStorage, classList, status, prior, writer, history>>

\* A render and commit of ThemeProvider: the queue is applied; the effect is
\* scheduled iff its dependency changed.
Render ==
    /\ status = "mounted"
    /\ hasWindow
    /\ ~effectPending
    /\ theme' = ApplyQueue(theme, queue)
    /\ queue' = 0
    /\ effectPending' = DepsChanged(theme, theme')
    /\ last' = "Render"
    /\ hook' = NoCall
    /\ found' = NoFound
    /\ UNCHANGED <<env, outside, localStorage, classList, status, prior, writer, history>>

\* Mutant: the effect writes storage before it touches the root's classes.
RunEffectStorageFirst ==
    /\ status = "mounted"
    /\ effectPending
    /\ effectPending' = FALSE
    /\ last' = "RunEffect"
    /\ hook' = NoCall
    /\ found' = Found
    /\ IF "setItem" \in storageThrows
       THEN /\ status' = "crashed"
            /\ UNCHANGED <<localStorage, writer, writes, classList>>
       ELSE /\ localStorage' = SetItem(localStorage, theme)
            /\ writer' = "store"
            /\ writes' = Append(writes, <<ThemeKey, theme>>)
            /\ classList' = SyncMarkers(classList, theme)
            /\ UNCHANGED status
    /\ UNCHANGED <<env, outside, theme, queue, prior, initial, toggles, batched, reads>>

\* The useEffect body: the markers first, then the storage write.
RunEffect ==
    /\ status = "mounted"
    /\ effectPending
    /\ effectPending' = FALSE
    /\ classList' = SyncMarkers(classList, theme)
    /\ last' = "RunEffect"
    /\ hook' = NoCall
    /\ found' = Found
    /\ IF "setItem" \in storageThrows
       THEN \* setItem throws out of the effect: React unmounts the tree
            /\ status' = "crashed"
            /\ UNCHANGED <<localStorage, writer, writes>>
       ELSE /\ localStorage' = SetItem(localStorage, theme)
            /\ writer' = "store"
            /\ writes' = Append(writes, <<ThemeKey, theme>>)
            /\ UNCHANGED status
    /\ UNCHANGED <<env, outside, theme, queue, prior, initial, toggles, batched, reads>>

\* A click on the theme toggle button, handled in one event turn: toggleTheme
\* is called, React flushes an effect that is still pending, renders, commits
\* and runs the effect of the new value before the turn ends.
ThemeToggleClick ==
    /\ status = "mounted"
    /\ hasWindow
    /\ toggles < MaxToggles
    /\ toggles' = toggles + 1
    /\ theme' = ApplyQueue(theme, queue + 1)
    /\ queue' = 0
    /\ effectPending' = FALSE
    /\ LET runs == (IF effectPending THEN <<theme>> ELSE <<>>)
                    \o (IF DepsChanged(theme, theme') THEN <<theme'>> ELSE <<>>)
       IN  IF runs = <<>>
           THEN UNCHANGED <<classList, localStorage, writer, writes, status>>
           ELSE IF "setItem" \in storageThrows
           THEN \* the first effect run throws at setItem: React unmounts the tree
                /\ classList' = SyncMarkers(classList, runs[1])
                /\ status' = "crashed"
                /\ UNCHANGED <<localStorage, writer, writes>>
           ELSE /\ classList' = SyncMarkers(classList, runs[Len(runs)])
                /\ localStorage' = SetItem(localStorage, runs[Len(runs)])
                /\ writer' = "store"
                /\ writes' = writes \o [i \in 1..Len(runs) |-> <<ThemeKey, runs[i]>>]
                /\ UNCHANGED status
    /\ last' = "ThemeToggleClick"
    /\ hook' = NoCall
    /\ found' = Found
    /\ UNCHANGED <<env, outside, prior, initial, batched, reads>>

\* useContext(ThemeContext): the provider's value { theme, toggleTheme } below a
\* rendered ThemeProvider, createContext's default (undefined) elsewhere.
ThemeContext(inside) ==
    IF inside
    THEN [defined |-> TRUE, theme |-> theme, toggleTheme |-> TRUE]
    ELSE [defined |-> FALSE, theme |-> null, toggleTheme |-> FALSE]

\* Mutant: reading the theme persists it.
useThemePersisting ==
    /\ status = "mounted"
    /\ hook' = [inside |-> TRUE] @@ useThemeBody(ThemeContext(TRUE))
    /\ localStorage' = [localStorage EXCEPT ![ThemeKey] = theme]
    /\ last' = "useTheme"
    /\ found' = NoFound
    /\ UNCHANGED <<env, outside, classList, status, theme, queue, effectPending,
                   prior, writer, history>>

\* A component calls useTheme() and reads the theme, inside or outside the
\* provider's subtree.
useTheme ==
    /\ \E inside \in BOOLEAN :
          /\ inside => status = "mounted"
          /\ hook' = [inside |-> inside] @@ useThemeBody(ThemeContext(inside))
    /\ last' = "useTheme"
    /\ found' = NoFound
    /\ UNCHANGED <<env, outside, localStorage, classList, status, theme, queue, effectPending,
                   prior, writer, history>>

\* Something else writes or removes an entry of the origin's storage (another
\* tab, the user, another script).
ExternalStorage ==
    /\ \E k \in StorageKeys :
          \E v \in Storable(k) :
             /\ localStorage[k] # v
             /\ localStorage' = [localStorage EXCEPT ![k] = v]
             /\ writer' = IF k = ThemeKey THEN "other" ELSE writer
    /\ last' = "ExternalStorage"
    /\ hook' = NoCall
    /\ found' = NoFound
    /\ UNCHANGED <<env, outside, classList, status, theme, queue, effectPending, prior, history>>

\* Something else changes the classes of the document root.
ExternalMarker ==
    /\ hasWindow
    /\ \E cl \in SUBSET Classes :
          /\ cl # classList
          /\ classList' = cl
    /\ last' = "ExternalMarker"
    /\ hook' = NoCall
    /\ found' = NoFound
    /\ UNCHANGED <<env, outside, localStorage, status, theme, queue, effectPending, prior,
                   writer, history>>

\* The page is loaded again: a new document, the same durable storage.
Reload ==
    /\ status # "unmounted"
    /\ hasWindow' \in BOOLEAN
    /\ classList' \in SUBSET Classes
    /\ status' = "unmounted"
    /\ theme' = null
    /\ queue' = 0
    /\ effectPending' = FALSE
    /\ last' = "Reload"
    /\ hook' = NoCall
    /\ found' = NoFound
    /\ prior' = [held |-> theme,
                 synced |-> status = "mounted" /\ hasWindow /\ ~effectPending]
    /\ initial' = null
    /\ toggles' = 0
    /\ batched' = FALSE
    /\ reads' = {}
    /\ writes' = <<>>
    /\ UNCHANGED <<storageThrows, localStorage, writer, outside>>

\* The page's own variables.
page == <<hasWindow, storageThrows, localStorage, classList, status, theme, queue,
          effectPending, last, hook, found, prior, writer, initial, toggles, batched,
          reads, writes>>

\* What a step of the second tab leaves alone: the first tab's document and
\* ThemeProvider state.
tab1 == <<env, classList, status, theme, queue, effectPending, prior, history, script>>

\* The first render of ThemeProvider in the second tab.
Mount2 ==
    /\ hasWindow
    /\ tab2.status = "unmounted"
    /\ tab2' = IF "getItem" \in storageThrows
               THEN [tab2 EXCEPT !.status = "crashed"]
               ELSE [tab2 EXCEPT !.status = "mounted",
                                 !.theme = InitialTheme(localStorage[ThemeKey], tab2.classList),
                                 !.initial = InitialTheme(localStorage[ThemeKey], tab2.classList),
                                 !.effectPending = TRUE]
    /\ last' = "Mount2"
    /\ hook' = NoCall
    /\ found' = [root |-> tab2.classList, item |-> localStorage[ThemeKey]]
    /\ UNCHANGED <<tab1, localStorage, writer>>

\* toggleTheme() in the second tab.
toggleTheme2 ==
    /\ tab2.status = "mounted"
    /\ tab2.toggles < MaxToggles2
    /\ tab2.queue < MaxQueue
    /\ tab2' = [tab2 EXCEPT !.queue = @ + 1, !.toggles = @ + 1]
    /\ last' = "toggleTheme2"
    /\ hook' = NoCall
    /\ found' = NoFound
    /\ UNCHANGED <<tab1, localStorage, writer>>

\* A render and commit of ThemeProvider in the second tab.
Render2 ==
    /\ tab2.status = "mounted"
    /\ ~tab2.effectPending
    /\ tab2' = [tab2 EXCEPT !.theme = ApplyQueue(tab2.theme, tab2.queue),
                            !.queue = 0,
                            !.effectPending =
                                DepsChanged(tab2.theme, ApplyQueue(tab2.theme, tab2.queue))]
    /\ last' = "Render2"
    /\ hook' = NoCall
    /\ found' = NoFound
    /\ UNCHANGED <<tab1, localStorage, writer>>

\* The useEffect body in the second tab: its own document's markers, then the
\* shared storage.
RunEffect2 ==
    /\ tab2.status = "mounted"
    /\ tab2.effectPending
    /\ last' = "RunEffect2"
    /\ hook' = NoCall
    /\ found' = [root |-> tab2.classList, item |-> localStorage[ThemeKey]]
    /\ IF "setItem" \in storageThrows
       THEN /\ tab2' = [tab2 EXCEPT !.effectPending = FALSE,
                                    !.classList = SyncMarkers(@, tab2.theme),
                                    !.status = "crashed"]
            /\ UNCHANGED <<localStorage, writer>>
       ELSE /\ tab2' = [tab2 EXCEPT !.effectPending = FALSE,
                                    !.classList = SyncMarkers(@, tab2.theme)]
            /\ localStorage' = SetItem(localStorage, tab2.theme)
            /\ writer' = "tab2"
    /\ UNCHANGED tab1

\* The second tab is loaded again: a new document, the same durable storage.
Reload2 ==
    /\ tab2.status # "unmounted"
    /\ \E cl \in SUBSET Classes : tab2' = NoTab(cl)
    /\ last' = "Reload2"
    /\ hook' = NoCall
    /\ found' = NoFound
    /\ UNCHANGED <<tab1, localStorage, writer>>

\* One check of the script: x_output=$(command 2>&1); x_exit=$?; if [ $x_exit -ne 0 ] ...
Checked(check, exit) ==
    [script EXCEPT !.pc = AfterCheck(check, exit),
                   !.HAS_ERRORS = RecordResult(@, exit),
                   !.ran = Append(@, check),
                   !.exits = Append(@, exit)]

\* npm run check
TypeCheck ==
    /\ script.pc = "types"
    /\ \E exit \in ExitStatuses : script' = Checked("types", exit)
    /\ UNCHANGED <<page, tab2>>

\* npx vitest run
UnitTests ==
    /\ script.pc = "test"
    /\ \E exit \in ExitStatuses : script' = Checked("test", exit)
    /\ UNCHANGED <<page, tab2>>

\* npm run lint:fix -- --quiet
ESLint ==
    /\ script.pc = "eslint"
    /\ \E exit \in ExitStatuses : script' = Checked("eslint", exit)
    /\ UNCHANGED <<page, tab2>>

\* npm run format
Prettier ==
    /\ script.pc = "prettier"
    /\ \E exit \in ExitStatuses : script' = Checked("prettier", exit)
    /\ UNCHANGED <<page, tab2>>

\* The summary line.
Summary ==
    /\ script.pc = "summary"
    /\ script' = [script EXCEPT !.pc = "exit", !.summary = SummaryLine(script.HAS_ERRORS)]
    /\ UNCHANGED <<page, tab2>>

\* exit 2 or exit 0.
Exit ==
    /\ script.pc = "exit"
    /\ script' = [script EXCEPT !.pc = "done", !.status = <<ExitStatus(script.HAS_ERRORS)>>]
    /\ UNCHANGED <<page, tab2>>

Next ==
    \/ Mount
    \/ toggleTheme
    \/ Render
    \/ RunEffect
    \/ useTheme
    \/ ExternalStorage
    \/ ExternalMarker
    \/ Reload

Spec == Init /\ [][Next]_vars

SpecThrows == InitThrows /\ [][Next]_vars

\* React runs an effect it has scheduled: a pending effect does not wait forever
\* while the page stays loaded.
SpecLive == Init /\ [][Next]_vars /\ WF_vars(RunEffect)

\* Two tabs of one browser on the same origin: each has a window and its own
\* document; storage works and nothing but the two pages writes it.
InitTabs ==
    /\ InitPage
    /\ hasWindow
    /\ storageThrows = {}
    /\ localStorage[OtherKey] = null
    /\ \E cl \in SUBSET Classes : tab2 = NoTab(cl)
    /\ script = ScriptStart

NextTabs ==
    \/ Mount
    \/ toggleTheme
    \/ Render
    \/ RunEffect
    \/ Mount2
    \/ toggleTheme2
    \/ Render2
    \/ RunEffect2
    \/ Reload2

SpecTabs == InitTabs /\ [][NextTabs]_vars

\* The hook script run from its first line; no page is involved.
InitScript ==
    /\ Init
    /\ hasWindow
    /\ classList = {}
    /\ localStorage = [k \in StorageKeys |-> null]

NextScript ==
    \/ TypeCheck
    \/ UnitTests
    \/ ESLint
    \/ Prettier
    \/ Summary
    \/ Exit

\* bash runs the file top to bottom; every command it runs returns.
SpecScript == InitScript /\ [][NextScript]_vars /\ WF_vars(NextScript)

\* The page as its user drives it: every toggle is a click on the toggle button.
NextClicks ==
    \/ Mount
    \/ ThemeToggleClick
    \/ Render
    \/ RunEffect
    \/ useTheme
    \/ ExternalStorage
    \/ ExternalMarker
    \/ Reload

SpecClicks == Init /\ [][NextClicks]_vars

\* ------------------------------------------------------------ claims

\* The variant that is not t.
OtherVariant(t) == CHOOSE x \in Themes : x # t

\* C1: for every initial value and every sequence of toggleTheme() calls, each
\* committed before the next is issued, the in-memory theme is the initial
\* value after an even number of toggles and the other variant after an odd
\* number.
C1_ToggleParity ==
    (status = "mounted" /\ ~batched /\ queue = 0) =>
        theme = IF toggles % 2 = 0 THEN initial ELSE OtherVariant(initial)

C1_Witness ==
    /\ status = "mounted" /\ ~batched /\ queue = 0
    /\ toggles = 3
    /\ initial = "light"
    /\ theme = "dark"

\* C2: once a value change has been synchronized (the effect has run), the
\* document root carries exactly one of the two markers, whatever markers it
\* carried before.
C2_ExactlyOneMarker ==
    last = "RunEffect" => Cardinality(classList \cap Markers) = 1

C2_Witness ==
    /\ last = "RunEffect"
    /\ toggles > 0
    /\ Markers \subseteq found.root
    /\ Cardinality(classList \cap Markers) = 1

\* C3: when a state transition has completed (its effect has run), the
\* in-memory theme and the marker on the document root agree: theme = dark iff
\* the root carries "dark", theme = light iff the root carries "light".
C3_MemoryAgreesWithRoot ==
    last = "RunEffect" => \A t \in Themes : (theme = t) <=> (t \in classList)

C3_Witness ==
    /\ last = "RunEffect"
    /\ toggles > 0
    /\ theme = "light"
    /\ found.root \cap Markers = {"dark"}
    /\ classList \cap Markers = {"light"}

\* C4: after a value change (the effect has run), the value stored under the
\* key "theme" is the current in-memory theme, whatever was stored before.
C4_StorageHoldsTheme ==
    last = "RunEffect" => localStorage[ThemeKey] = theme

C4_Witness ==
    /\ last = "RunEffect"
    /\ toggles > 0
    /\ found.item = "blue"
    /\ theme = "dark"
    /\ localStorage[ThemeKey] = "dark"

\* C5: round trip across a reload: when a page that has synchronized its last
\* value is reloaded and the new page initializes from the storage the old
\* store wrote, the new store's initial value is the value the old store held
\* last, whatever markers the new document root carries.
C5_ReloadRoundTrip ==
    (last = "Mount" /\ hasWindow /\ prior.synced /\ writer = "store") =>
        theme = prior.held

C5_Witness ==
    /\ last = "Mount" /\ hasWindow /\ prior.synced /\ writer = "store"
    /\ prior.held = "light"
    /\ found.root \cap Markers = {"dark"}
    /\ theme = "light"

\* C6: initialization in a browser with a valid stored preference: the initial
\* value is the stored value, whether or not the root carries the dark marker.
C6_ValidStoredWins ==
    (last = "Mount" /\ hasWindow /\ found.item \in Themes) => theme = found.item

\* Scenario C: "light" is stored and the root is marked dark.
C6_Witness ==
    /\ last = "Mount" /\ hasWindow
    /\ found.item = "light"
    /\ "dark" \in found.root
    /\ theme = "light"

\* C7: initialization in a browser with nothing stored: the initial value is
\* dark iff the root carries the "dark" marker (with or without "light"), and
\* light otherwise.
C7_EmptyStorageUsesMarker ==
    (last = "Mount" /\ hasWindow /\ found.item = null) =>
        /\ theme \in Themes
        /\ theme = "dark" <=> "dark" \in found.root

C7_Witness ==
    /\ last = "Mount" /\ hasWindow
    /\ found.item = null
    /\ Markers \subseteq found.root
    /\ theme = "dark"

\* C8: initialization in a browser with an invalid stored string: the string
\* is rejected, the initial value is decided by the root's marker as with
\* empty storage, and initialization does not fail.
C8_InvalidStoredFallsBack ==
    (last = "Mount" /\ hasWindow /\ found.item \notin Themes \cup {null}) =>
        /\ status = "mounted"
        /\ theme = IF "dark" \in found.root THEN "dark" ELSE "light"

C8_Witness ==
    /\ last = "Mount" /\ hasWindow
    /\ found.item = "Dark"
    /\ "dark" \notin found.root
    /\ status = "mounted"
    /\ theme = "light"

\* C9: without a window, initialization yields dark and reads neither durable
\* storage nor the document.
C9_NoWindowDefaultsDark ==
    (last = "Mount" /\ ~hasWindow) => (theme = "dark" /\ reads = {})

C9_Witness ==
    /\ last = "Mount" /\ ~hasWindow
    /\ found.item = "light"
    /\ "dark" \notin found.root
    /\ theme = "dark"

\* The two toggles of C10 have been issued from initial state dark and all
\* their work is done.
TwoTogglesFromDarkDone ==
    /\ status = "mounted"
    /\ initial = "dark"
    /\ toggles = 2
    /\ queue = 0
    /\ ~effectPending

\* The writes the toggles caused: those after the write of the initial
\* synchronization.
ToggleWrites == IF writes = <<>> THEN <<>> ELSE Tail(writes)

\* C10 as stated: from initial state dark, two toggleTheme() calls yield dark
\* and cause exactly two writes, "light" then "dark".
C10_Original ==
    TwoTogglesFromDarkDone =>
        /\ theme = "dark"
        /\ ToggleWrites = << <<ThemeKey, "light">>, <<ThemeKey, "dark">> >>

\* C10, amended: from initial state dark, two toggleTheme() calls of which the
\* first is committed before the second is issued yield dark and cause exactly
\* two writes, "light" then "dark".
C10_TwoSerialToggles ==
    (TwoTogglesFromDarkDone /\ ~batched) =>
        /\ theme = "dark"
        /\ ToggleWrites = << <<ThemeKey, "light">>, <<ThemeKey, "dark">> >>

C10_Witness ==
    /\ TwoTogglesFromDarkDone /\ ~batched
    /\ theme = "dark"
    /\ writes = << <<ThemeKey, "dark">>, <<ThemeKey, "light">>, <<ThemeKey, "dark">> >>

\* C11 as stated: when storage access throws, on the read of the
\* initialization or on the write of the synchronization, the application
\* does not crash: the store has a value and remains mounted.
C11_DegradesToMemoryOnly ==
    storageThrows # {} =>
        /\ status # "crashed"
        /\ last \in {"Mount", "RunEffect"} => theme \in Themes

\* C12: useTheme outside the provider's scope throws its descriptive error and
\* returns no default value; inside the scope it does not fail and returns the
\* current value together with the toggle operation.
C12_UseThemeGuard ==
    last = "useTheme" =>
        IF hook.inside
        THEN /\ hook.outcome = "return"
             /\ hook.theme = theme
             /\ hook.theme \in Themes
             /\ hook.toggleTheme
        ELSE /\ hook.outcome = "throw"
             /\ hook.error = ProviderError
             /\ hook.theme = null

C12_Witness ==
    /\ last = "useTheme"
    /\ ~hook.inside
    /\ status = "mounted"
    /\ theme = "light"
    /\ hook.outcome = "throw"

\* C13: reading the theme has no side effects: a read leaves the in-memory
\* value, the pending updates, the document root's classes and durable storage
\* unchanged.
C13_ReadHasNoSideEffect ==
    [][last' = "useTheme" =>
          UNCHANGED <<theme, queue, effectPending, classList, localStorage>>]_vars

C13_Witness ==
    /\ last = "useTheme"
    /\ hook.inside
    /\ hook.outcome = "return"
    /\ hook.theme = "light"
    /\ effectPending
    /\ localStorage[ThemeKey] = "dark"

\* C14: once the store is initialized, its in-memory value changes only when
\* toggleTheme calls are committed: the synchronization, a re-render without
\* queued toggles, a read, and outside changes of storage or of the root's
\* classes leave it as it is.
C14_OnlyToggleChangesTheme ==
    [][(status = "mounted" /\ status' = "mounted" /\ theme' # theme) =>
          (last' = "Render" /\ queue > 0)]_vars

C14_Witness ==
    /\ status = "mounted"
    /\ last = "ExternalStorage"
    /\ toggles = 0
    /\ ~effectPending
    /\ theme = "dark"
    /\ initial = "dark"
    /\ localStorage[ThemeKey] = "light"
    /\ classList \cap Markers = {"light"}

\* C15: the store's value is always dark or light, there is no terminal state
\* (in a browser toggleTheme can always be called, up to the bounds of the
\* model), and a committed toggle leads to the other variant.
C15_TwoStatesNoTerminal ==
    /\ [](status = "mounted" =>
            /\ theme \in Themes
            /\ (hasWindow /\ toggles < MaxToggles /\ queue < MaxQueue) =>
                  ENABLED toggleTheme)
    /\ [][(last' = "Render" /\ queue = 1) => theme' = OtherVariant(theme)]_vars

C15_Witness ==
    /\ status = "mounted"
    /\ last = "Render"
    /\ toggles = 2
    /\ ~batched
    /\ initial = "dark"
    /\ theme = "dark"
    /\ ENABLED toggleTheme

\* The steps the store takes itself.
StoreSteps == {"Mount", "toggleTheme", "Render", "RunEffect", "useTheme"}

\* C16: the store writes to durable storage only under the key "theme", every
\* value it writes is "dark" or "light", and it never removes the key nor
\* touches another key.
C16_WritesOnlyThemeKey ==
    [][last' \in StoreSteps =>
          /\ localStorage'[OtherKey] = localStorage[OtherKey]
          /\ localStorage'[ThemeKey] # localStorage[ThemeKey] =>
                (last' = "RunEffect" /\ localStorage'[ThemeKey] \in Themes)
          /\ last' = "RunEffect" => localStorage'[ThemeKey] \in Themes]_vars

C16_Witness ==
    /\ last = "RunEffect"
    /\ found.item = null
    /\ localStorage[ThemeKey] = "light"
    /\ localStorage[OtherKey] = "1"

C18_InitialSyncOnce ==
    (status = "mounted" /\ hasWindow /\ toggles = 0) =>
        /\ theme = initial
        /\ writes = IF effectPending THEN <<>> ELSE << <<ThemeKey, initial>> >>
        /\ last = "RunEffect" =>
              /\ classList \cap Markers = {initial}
              /\ localStorage[ThemeKey] = initial
        /\ last = "Render" => ~effectPending

C18_Witness ==
    /\ status = "mounted" /\ hasWindow /\ toggles = 0
    /\ last = "Render"
    /\ ~effectPending
    /\ initial = "light"
    /\ writes = << <<ThemeKey, "light">> >>

\* C19: the first synchronization after initialization replaces an absent or
\* invalid stored preference by the value derived from the document marker,
\* without any toggle.
C19_FirstSyncRepairsStorage ==
    (last = "RunEffect" /\ toggles = 0 /\ found.item \notin Themes) =>
        /\ localStorage[ThemeKey] \in Themes
        /\ localStorage[ThemeKey] = theme
        /\ theme = initial

C19_Witness ==
    /\ last = "RunEffect" /\ toggles = 0
    /\ found.item = "blue"
    /\ reads = {"localStorage", "classList"}
    /\ "dark" \in found.root
    /\ theme = "dark"
    /\ localStorage[ThemeKey] = "dark"

\* C20: no toggle is lost when toggleTheme() calls are issued before the store
\* re-renders: once the queue is committed the value is flipped iff the number
\* of calls is odd.
C20_NoToggleLost ==
    (status = "mounted" /\ batched /\ queue = 0) =>
        theme = IF toggles % 2 = 0 THEN initial ELSE OtherVariant(initial)

C20_Witness ==
    /\ status = "mounted" /\ batched /\ queue = 0
    /\ last = "Render"
    /\ toggles = 3
    /\ Len(writes) = 1
    /\ initial = "dark"
    /\ theme = "light"

\* C21: the synchronization runs only when the committed value differs from
\* the one committed before: a render that leaves the value as it was (no
\* queued toggle, or an even number committed together) schedules no effect
\* and changes neither storage nor the root's classes, so two consecutive
\* writes of the store never carry the same value.
C21_EffectOnlyOnChange ==
    /\ [](\A i \in 1..Len(writes) - 1 : writes[i] # writes[i + 1])
    /\ [][(last' = "Render" /\ theme' = theme) =>
            /\ ~effectPending'
            /\ UNCHANGED <<classList, localStorage, writes>>]_vars

C21_Witness ==
    /\ status = "mounted"
    /\ last = "Render"
    /\ toggles = 2
    /\ batched
    /\ queue = 0
    /\ ~effectPending
    /\ theme = initial
    /\ Len(writes) = 1

\* C22: within one synchronization the root's markers are updated before the
\* storage write is attempted: when the write throws, the root already
\* carries exactly the marker of the in-memory value and storage is as it was.
C22_MarkersBeforeWrite ==
    (last = "RunEffect" /\ "setItem" \in storageThrows) =>
        /\ classList \cap Markers = {theme}
        /\ localStorage[ThemeKey] = found.item
        /\ writes = <<>>

C22_Witness ==
    /\ last = "RunEffect" /\ "setItem" \in storageThrows
    /\ status = "crashed"
    /\ theme = "dark"
    /\ Markers \subseteq found.root
    /\ classList \cap Markers = {"dark"}
    /\ localStorage[ThemeKey] = "blue"

\* A render has just committed a value that differs from the one the store
\* wrote last: a toggle has been committed and is not synchronized yet.
ToggleCommitted ==
    /\ status = "mounted"
    /\ last = "Render"
    /\ writes # <<>>
    /\ writes[Len(writes)][2] # theme

\* The effect has just run and the root's marker and the stored value are the
\* in-memory value.
Synchronized ==
    /\ last = "RunEffect"
    /\ classList \cap Markers = {theme}
    /\ localStorage[ThemeKey] = theme

\* C23: with storage that does not throw, every committed toggle is eventually
\* followed by a synchronization after which the root's marker and the stored
\* value equal the in-memory value, unless the page is unloaded first.
C23_ToggleEventuallySynchronized ==
    ToggleCommitted ~> (Synchronized \/ status # "mounted")

C23_Witness ==
    /\ Synchronized
    /\ toggles = 1
    /\ initial = "dark"
    /\ theme = "light"
    /\ found.item = "dark"
    /\ writes = << <<ThemeKey, "dark">>, <<ThemeKey, "light">> >>

\* The steps of the first tab and of the second tab.
Tab1Steps == {"Mount", "toggleTheme", "Render", "RunEffect"}

Tab2Steps == {"Mount2", "toggleTheme2", "Render2", "RunEffect2", "Reload2"}

\* The second tab's in-memory state and document.
Tab2Own == <<tab2.theme, tab2.queue, tab2.effectPending, tab2.classList, tab2.status>>

\* The tab whose synchronization ran last holds no committed value that its
\* effect has still to synchronize.
Tab1Settled == writer = "store" /\ status = "mounted" /\ ~effectPending

Tab2Settled == writer = "tab2" /\ tab2.status = "mounted" /\ ~tab2.effectPending

\* C24: two tabs on the same storage. A step of one tab leaves the other tab's
\* in-memory value and document alone; storage changes in synchronizations only;
\* the stored value is the in-memory value of the tab whose synchronization ran
\* last (right after it, and for as long as that tab has no committed toggle
\* waiting for its effect); a tab initialized after a synchronization adopts
\* the stored value.
C24_TwoTabsLastSyncWins ==
    /\ [](last = "RunEffect" => localStorage[ThemeKey] = theme)
    /\ [](last = "RunEffect2" => localStorage[ThemeKey] = tab2.theme)
    /\ [](Tab1Settled => localStorage[ThemeKey] = theme)
    /\ [](Tab2Settled => localStorage[ThemeKey] = tab2.theme)
    /\ [](last = "Mount2" /\ writer # "other" =>
             /\ tab2.theme = localStorage[ThemeKey]
             /\ Tab1Settled => tab2.theme = theme)
    /\ [](last = "Mount" /\ writer # "other" =>
             /\ theme = localStorage[ThemeKey]
             /\ Tab2Settled => theme = tab2.theme)
    /\ [][/\ last' \in Tab1Steps => UNCHANGED Tab2Own
          /\ last' \in Tab2Steps => UNCHANGED <<theme, queue, effectPending, classList, status>>
          /\ localStorage' # localStorage => last' \in {"RunEffect", "RunEffect2"}]_vars

C24_Witness ==
    /\ last = "RunEffect2"
    /\ writer = "tab2"
    /\ tab2.toggles = 1
    /\ tab2.initial = "dark"
    /\ tab2.theme = "light"
    /\ tab2.classList \cap Markers = {"light"}
    /\ localStorage[ThemeKey] = "light"
    /\ status = "mounted"
    /\ ~effectPending
    /\ toggles = 1
    /\ initial = "light"
    /\ theme = "dark"
    /\ classList \cap Markers = {"dark"}

\* Some check that has run returned a non-zero status.
SomeCheckFailed == \E i \in 1..Len(script.exits) : script.exits[i] # 0

\* C25: the hook script exits with status 2 iff at least one of its four checks
\* returned a non-zero status and with status 0 otherwise; a failure, once
\* recorded in HAS_ERRORS, is never cleared by a later check that passes.
C25_ExitStatusIffFailure ==
    /\ [](script.HAS_ERRORS = 1 <=> SomeCheckFailed)
    /\ [](script.pc = "done" =>
             /\ Len(script.exits) = Len(CheckOrder)
             /\ script.status = <<2>> <=> SomeCheckFailed
             /\ script.status = <<0>> <=> ~SomeCheckFailed)
    /\ [][script.HAS_ERRORS = 1 => script'.HAS_ERRORS = 1]_vars

C25_Witness ==
    /\ script.pc = "done"
    /\ script.exits = <<1, 0, 0, 0>>
    /\ script.HAS_ERRORS = 1
    /\ script.summary = SomeFailed
    /\ script.status = <<2>>

\* The checks run so far are the first ones of the fixed order.
RanInOrder ==
    /\ Len(script.ran) <= Len(CheckOrder)
    /\ \A i \in 1..Len(script.ran) : script.ran[i] = CheckOrder[i]

\* The script has printed its summary and exited, after all four checks.
ScriptFinished ==
    /\ script.pc = "done"
    /\ script.ran = CheckOrder
    /\ script.summary # null
    /\ script.status # <<>>

\* C26: the hook script runs its four checks in the order type check, unit
\* tests, ESLint, Prettier; a check that fails skips none of the later ones;
\* the script always reaches its summary and its exit.
C26_AllChecksThenExit ==
    /\ [](RanInOrder)
    /\ [](script.pc \in {"summary", "exit", "done"} => script.ran = CheckOrder)
    /\ [](script.status # <<>> => script.summary # null)
    /\ <>ScriptFinished

C26_Witness ==
    /\ ScriptFinished
    /\ script.exits = <<2, 1, 0, 1>>
    /\ script.status = <<2>>

====
